---- MODULE Spec2Model ----
(***************************************************************************)
(* Job queue and worker pool of the generation backend                     *)
(* (package queue, QueueManager) together with the inference engine's      *)
(* Generate as the workers call it (package inference, PythonEngine).      *)
(*                                                                         *)
(* Every QueueManager method holds m.mu for its whole body, so each        *)
(* method is one atomic action.  A worker is a sequence of such calls;     *)
(* its position between two calls is pc[w].  The context handed to         *)
(* StartProcessor is context.Background(), which is never done, so the     *)
(* ctx.Done() case of processWorker is never ready; the per-job timeout    *)
(* context derived from it expires only by its timer.                      *)
(*                                                                         *)
(* Times (StartedAt, CompletedAt) are modelled by whether the pointer is   *)
(* set.  Progress is a float64 percentage in the code; here it is the      *)
(* integer part of that percentage.                                        *)
(***************************************************************************)
EXTENDS Integers, Sequences, FiniteSets, TLC

\* ---- bounds of the model ------------------------------------------------
\* Two families of runs share the actions below.  The queue runs (Spec)
\* submit many small requests to several workers; the generation runs
\* (SpecGen) submit few requests with several steps and images to one worker.
NumJobs == 3          \* requests submitted in a queue run
MaxQueueSize == 2     \* config.MaxQueueSize (default 100), scaled down
MaxWorkers == 2       \* largest config.MaxConcurrent of a queue run
QueueSteps == 1       \* largest req.Steps of a queue run
QueueBatch == 1       \* largest req.BatchSize of a queue run
GenJobs == 2          \* requests submitted in a generation run
MaxSteps == 3         \* largest req.Steps of a generation run (code: 1..150)
MaxBatch == 2         \* largest req.BatchSize of a generation run (code: 1..10)
MaxDim == 2           \* largest req.Width and req.Height of a placeholder call
MaxLaunch == 2        \* processes a supervisor run launches at most

JobIds == 1..(IF NumJobs > GenJobs THEN NumJobs ELSE GenJobs)
Workers == 1..MaxWorkers

\* models.GenerationStatusType
StatusQueued == "queued"
StatusProcessing == "processing"
StatusCompleted == "completed"
StatusFailed == "failed"
StatusCancelled == "cancelled"

\* models.ErrQueueFull, models.ErrGenerationNotFound, and the nil error
ErrQueueFull == "generation queue is full"
ErrGenerationNotFound == "generation not found"
NoError == ""

\* progress values the external service may report in a status poll
RemoteProgress == {0, 50}

VARIABLES
    limits,          \* what the callers of this run submit: [jobs, steps, batch]
    config,          \* config.QueueConfig: [MaxConcurrent, MaxQueueSize]
    ready,           \* PythonEngine.ready, fixed by Initialize
    service,         \* the external process now: "up" (answers requests) or "down"
    sup,             \* PythonServiceManager and the processes it deals with
    call,            \* one mockGenerate call on its own: request, locals, outcome
    rd,              \* one status record, its writers field by field, and a reader
    view,            \* the list a GetQueue caller holds, and what it showed on return
    codec,           \* one payload through encryptIfNeeded and decryptIfNeeded
    pics,            \* the placeholder images of two Generate calls
    http,            \* the last request body of POST /generate and its response
    requests,        \* the GenerationRequest objects by id: [Steps, BatchSize]
    queue,           \* m.queue: sequence of QueueItem [id, Position]
    statuses,        \* m.statuses: id -> GenerationStatus
    cancelChans,     \* m.cancelChans: the ids that have an entry
    closed,          \* the ids whose cancel channel has been closed
    processingChan,  \* m.processingChan: buffered channel of request ids
    pc,              \* worker goroutine -> position in processWorker/processRequest
    req,             \* worker -> id of the request it received (0: none)
    cancelChan,      \* worker -> local cancelChan of processRequest: "nil" or "chan"
    expired,         \* worker -> the timer of its timeoutCtx has fired
    gen,             \* worker -> locals of Generate: [i, step, results, err]
    last,            \* the caller's operation that returned in the last step
    hist             \* history: [recv: the ids that workers have received so far,
                     \*           dec: the ids whose progress was ever written lower]

vars == <<limits, config, ready, service, sup, call, rd, view, codec, pics, http, requests, queue, statuses, cancelChans, closed,
          processingChan, pc, req, cancelChan, expired, gen, last, hist>>

wvars == <<pc, req, cancelChan, expired, gen>>

\* what callers hold outside the manager's lock
obs == <<rd, view, codec, pics, http>>

\* ---- helpers ------------------------------------------------------------

Ids(q) == {q[i].id : i \in 1..Len(q)}

\* index of the first item of q with the given id, 0 if there is none
RECURSIVE IndexFrom(_, _, _)
IndexFrom(q, id, i) ==
    IF i > Len(q) THEN 0
    ELSE IF q[i].id = id THEN i
    ELSE IndexFrom(q, id, i + 1)

IndexOf(q, id) == IndexFrom(q, id, 1)

\* m.queue = append(m.queue[:i], m.queue[i+1:]...) for the first match; break
\* (mutant: the entries before the match are dropped with it)
RemoveFirstMut(q, id) ==
    LET i == IndexOf(q, id) IN
    IF i = 0 THEN q
    ELSE SubSeq(q, i + 1, Len(q))
RemoveFirst(q, id) ==
    LET i == IndexOf(q, id) IN
    IF i = 0 THEN q
    ELSE SubSeq(q, 1, i - 1) \o SubSeq(q, i + 1, Len(q))

\* for i, item := range m.queue { item.Position = i + 1 }
Renumber(q) == [i \in 1..Len(q) |-> [q[i] EXCEPT !.Position = i]]

\* len(m.queue) >= m.config.MaxQueueSize (mutant: an off-by-one comparison)
QueueFullMut(q) == Len(q) > config.MaxQueueSize
QueueFull(q) == Len(q) >= config.MaxQueueSize

\* Position: len(m.queue) + 1 (mutant: a 0-based position)
NewPositionMut(q) == Len(q)
NewPosition(q) == Len(q) + 1

\* select { case m.processingChan <- req: ... default: ... }: the request
\* is appended when the buffer has room and dropped otherwise (mutant: a
\* buffer that hands out the newest request first)
ChanSendMut(ch, id) == IF Len(ch) < config.MaxQueueSize THEN <<id>> \o ch ELSE ch
ChanSend(ch, id) == IF Len(ch) < config.MaxQueueSize THEN Append(ch, id) ELSE ch

\* answer: what the last request to the service came back with ("" none,
\* "unreachable", "rejected", "accepted")
NoGen == [i |-> 0, step |-> 0, results |-> <<>>, err |-> NoError, answer |-> ""]

\* what a call returned; Internal: the last step was a worker's
Ret(op, id, pos, err) == [op |-> op, id |-> id, pos |-> pos, err |-> err]
Internal == Ret("internal", 0, 0, NoError)

\* ---- construction -------------------------------------------------------

\* m.cmd == nil, and a Cmd whose Process is nil (never started)
CmdNil == 0
CmdUnstarted == -1

\* NewPythonServiceManager: isRunning false, cmd nil.  cmd is CmdNil,
\* CmdUnstarted, or the pid (1, 2, ...) of the process it started.  own: the processes launched so far by pid, each "healthy",
\* "silent" (alive, /health not answered with 200) or "exited".  foreign: a
\* process this manager did not launch answers /health on the service URL.
\* venv: the virtual environment of the service exists.  model: the last
\* warm load of the default model succeeded.
NoSup == [isRunning |-> FALSE, cmd |-> CmdNil, goos |-> "unix", foreign |-> FALSE,
          own |-> <<>>, venv |-> FALSE, model |-> FALSE]

\* isHealthy: GET serviceURL/health answers 200
isHealthy(s) == s.foreign \/ \E p \in DOMAIN s.own : s.own[p] = "healthy"

\* IsRunning: m.isRunning && m.isHealthy() (mutant: the process handle is
\* consulted instead of the health probe)
IsRunningMut(s) == s.isRunning /\ s.cmd # CmdNil
IsRunning(s) == s.isRunning /\ isHealthy(s)

\* the service as the engine sees it
ServiceOf(s) == IF isHealthy(s) THEN "up" ELSE "down"

\* no mockGenerate call is under observation
NoCall == [engine |-> "none"]

\* the start of mockGenerate(ctx, req, progressCallback) of one engine;
\* calls: the invocations of progressCallback so far
NewCall(engine, r) ==
    [engine |-> engine, req |-> r, done |-> FALSE, i |-> 0, step |-> 1,
     calls |-> <<>>, results |-> <<>>, ret |-> "running"]

\* no caller holds a record
NoRead == [r |-> 0]

\* nothing was encrypted
NoCodec == [enabled |-> FALSE]

\* no placeholder was drawn
NoPics == <<>>

\* no request was posted
NoHttp == [code |-> 0]

\* no caller holds a queue listing
NoView == [taken |-> FALSE, items |-> <<>>, at |-> <<>>]

\* NewManager
InitManager ==
    /\ requests = <<>>
    /\ queue = <<>>
    /\ statuses = <<>>
    /\ cancelChans = {}
    /\ closed = {}
    /\ processingChan = <<>>
    /\ pc = [w \in Workers |-> "off"]
    /\ req = [w \in Workers |-> 0]
    /\ cancelChan = [w \in Workers |-> "nil"]
    /\ expired = [w \in Workers |-> FALSE]
    /\ gen = [w \in Workers |-> NoGen]
    /\ last = Internal
    /\ hist = [recv |-> {}, dec |-> {}]

\* a queue run; Initialize found no service, so e.ready stays false
Init ==
    /\ rd = NoRead
    /\ view = NoView
    /\ http = NoHttp
    /\ codec = NoCodec
    /\ pics = NoPics
    /\ sup = NoSup
    /\ call = NoCall
    /\ ready = FALSE
    /\ service = "down"
    /\ limits = [jobs |-> NumJobs, steps |-> QueueSteps, batch |-> QueueBatch]
    /\ config \in [MaxConcurrent : 1..MaxWorkers, MaxQueueSize : {MaxQueueSize}]
    /\ InitManager

\* a generation run on the placeholder path
InitGen ==
    /\ rd = NoRead
    /\ view = NoView
    /\ http = NoHttp
    /\ codec = NoCodec
    /\ pics = NoPics
    /\ sup = NoSup
    /\ call = NoCall
    /\ ready = FALSE
    /\ service = "down"
    /\ limits = [jobs |-> GenJobs, steps |-> MaxSteps, batch |-> MaxBatch]
    /\ config = [MaxConcurrent |-> 1, MaxQueueSize |-> MaxQueueSize]
    /\ InitManager

\* a run against the external service: Initialize found it healthy
InitRemote ==
    /\ rd = NoRead
    /\ view = NoView
    /\ http = NoHttp
    /\ codec = NoCodec
    /\ pics = NoPics
    /\ sup = NoSup
    /\ call = NoCall
    /\ ready = TRUE
    /\ service = "up"
    /\ limits = [jobs |-> GenJobs, steps |-> QueueSteps, batch |-> MaxBatch]
    /\ config = [MaxConcurrent |-> 1, MaxQueueSize |-> MaxQueueSize]
    /\ InitManager

\* one call of mockGenerate of either engine, for every request in the bounds
InitMock ==
    /\ rd = NoRead
    /\ view = NoView
    /\ http = NoHttp
    /\ codec = NoCodec
    /\ pics = NoPics
    /\ sup = NoSup
    /\ ready = FALSE
    /\ service = "down"
    /\ limits = [jobs |-> 0, steps |-> MaxSteps, batch |-> MaxBatch]
    /\ config = [MaxConcurrent |-> 1, MaxQueueSize |-> MaxQueueSize]
    /\ InitManager
    /\ \E engine \in {"python", "onnx"}, steps \in 1..MaxSteps, batch \in 1..MaxBatch,
          width \in 1..MaxDim, height \in 1..MaxDim :
          call = NewCall(engine, [Steps |-> steps, BatchSize |-> batch,
                                  Width |-> width, Height |-> height])

\* a supervisor run: a new manager on either platform, the service URL
\* already served by another process or not
InitSup ==
    /\ \E goos \in {"unix", "windows"}, foreign \in BOOLEAN, venv \in BOOLEAN :
          sup = [NoSup EXCEPT !.goos = goos, !.foreign = foreign, !.venv = venv]
    /\ service = ServiceOf(sup)
    /\ call = NoCall
    /\ rd = NoRead
    /\ view = NoView
    /\ http = NoHttp
    /\ codec = NoCodec
    /\ pics = NoPics
    /\ ready = FALSE
    /\ limits = [jobs |-> 0, steps |-> QueueSteps, batch |-> QueueBatch]
    /\ config = [MaxConcurrent |-> 1, MaxQueueSize |-> MaxQueueSize]
    /\ InitManager

\* ---- caller operations --------------------------------------------------

\* whether the publish step of Enqueue returns: the select has a default
\* case, so it does whatever the buffer holds (mutant: a plain send, which
\* returns only when the buffer has room)
PublishReturnsMut(ch) == Len(ch) < config.MaxQueueSize
PublishReturns(ch) == TRUE

\* QueueManager.Enqueue for requests with ids of their own (the handler
\* gives a request without an id a fresh uuid); the ids are numbered in the
\* order in which the requests are stored.  EnqueueRequest below is Enqueue
\* for any id.
Enqueue(id, steps, batch) ==
    /\ id = Cardinality(DOMAIN requests) + 1
    /\ id <= limits.jobs
    /\ IF QueueFull(queue)
       THEN /\ last' = Ret("Enqueue", id, -1, ErrQueueFull)
            /\ UNCHANGED <<requests, queue, statuses, cancelChans,
                           processingChan, hist>>
       ELSE LET item == [id |-> id, Position |-> NewPosition(queue)]
                status == [Status |-> StatusQueued, Progress |-> 0,
                           CurrentStep |-> 0, TotalSteps |-> steps,
                           Results |-> <<>>, Error |-> NoError,
                           StartedAt |-> FALSE, CompletedAt |-> FALSE]
            IN  /\ requests' = (id :> [Steps |-> steps, BatchSize |-> batch]) @@ requests
                /\ queue' = Append(queue, item)
                /\ statuses' = (id :> status) @@ statuses
                /\ cancelChans' = cancelChans \cup {id}
                /\ PublishReturns(processingChan)
                /\ processingChan' = ChanSend(processingChan, id)
                /\ last' = Ret("Enqueue", id, item.Position, NoError)
                /\ hist' = hist
    /\ UNCHANGED <<rd, view, codec, pics, limits, config, ready, service, sup, call, closed,
                   wvars>>

\* QueueManager.Cancel
Cancel(id) ==
    /\ IF id \notin DOMAIN statuses
       THEN /\ last' = Ret("Cancel", id, 0, ErrGenerationNotFound)
            /\ UNCHANGED <<queue, statuses, cancelChans, closed>>
       ELSE /\ statuses' = [statuses EXCEPT ![id].Status = StatusCancelled,
                                            ![id].CompletedAt = TRUE]
            /\ IF id \in cancelChans
               THEN /\ closed' = closed \cup {id}
                    /\ cancelChans' = cancelChans \ {id}
               ELSE UNCHANGED <<closed, cancelChans>>
            /\ queue' = RemoveFirst(queue, id)
            /\ last' = Ret("Cancel", id, 0, NoError)
    /\ UNCHANGED <<obs, limits, config, ready, service, sup, call, requests, processingChan, wvars, hist>>

\* status, exists := m.statuses[id] (mutant: the pending list is searched)
StatusExistsMut(id) == id \in Ids(queue)
StatusExists(id) == id \in DOMAIN statuses

\* QueueManager.GetStatus: a read under the lock
GetStatus(id) ==
    /\ last' = Ret("GetStatus", id, 0,
                   IF StatusExists(id) THEN NoError ELSE ErrGenerationNotFound)
    /\ UNCHANGED <<obs, limits, config, ready, service, sup, call, requests, queue, statuses, cancelChans,
                   closed, processingChan, wvars, hist>>

\* for i := 0; i < m.config.MaxConcurrent; i++: the slots that get a worker
\* (mutant: a worker for every slot of the machine)
SpawnedMut(w) == w <= MaxWorkers
Spawned(w) == w <= config.MaxConcurrent

\* QueueManager.StartProcessor: one processWorker goroutine per slot
StartProcessor ==
    /\ \A w \in Workers : pc[w] = "off"
    /\ pc' = [w \in Workers |-> IF Spawned(w) THEN "idle" ELSE "off"]
    /\ last' = Internal
    /\ UNCHANGED <<obs, limits, config, ready, service, sup, call, requests, queue, statuses, cancelChans, closed,
                   processingChan, req, cancelChan, expired, gen, hist>>

\* ---- worker goroutines --------------------------------------------------

\* req := <-m.processingChan: a channel delivers in the order of the sends
ChanRecv(ch) == Head(ch)
ChanRestMut(ch) == ch
ChanRest(ch) == Tail(ch)

\* processWorker: case req := <-m.processingChan
Receive(w) ==
    /\ pc[w] = "idle"
    /\ processingChan # <<>>
    /\ req' = [req EXCEPT ![w] = ChanRecv(processingChan)]
    /\ processingChan' = ChanRest(processingChan)
    /\ pc' = [pc EXCEPT ![w] = "start"]
    /\ hist' = [hist EXCEPT !.recv = @ \cup {ChanRecv(processingChan)}]
    /\ last' = Internal
    /\ UNCHANGED <<obs, limits, config, ready, service, sup, call, requests, queue, statuses, cancelChans, closed,
                   cancelChan, expired, gen>>

\* QueueManager.updateStatus
updateStatus(id, status, progress) ==
    IF id \in DOMAIN statuses
    THEN [statuses EXCEPT
            ![id].Status = status,
            ![id].Progress = progress,
            ![id].StartedAt = IF status = StatusProcessing THEN TRUE ELSE @,
            ![id].CompletedAt =
                IF status \in {StatusCompleted, StatusFailed, StatusCancelled}
                THEN TRUE ELSE @]
    ELSE statuses

\* QueueManager.updateProgress
updateProgress(id, progress, step) ==
    IF id \in DOMAIN statuses
    THEN [statuses EXCEPT ![id].Progress = progress, ![id].CurrentStep = step]
    ELSE statuses

\* QueueManager.updateStatusWithError
updateStatusWithError(id, status, errorMsg) ==
    IF id \in DOMAIN statuses
    THEN [statuses EXCEPT ![id].Status = status, ![id].Error = errorMsg,
                          ![id].CompletedAt = TRUE]
    ELSE statuses

\* QueueManager.updateStatusWithResults (mutant: the progress is left as
\* the last callback wrote it)
updateStatusWithResultsMut(id, status, results) ==
    IF id \in DOMAIN statuses
    THEN [statuses EXCEPT ![id].Status = status,
                          ![id].Results = results, ![id].CompletedAt = TRUE]
    ELSE statuses
updateStatusWithResults(id, status, results) ==
    IF id \in DOMAIN statuses
    THEN [statuses EXCEPT ![id].Status = status, ![id].Progress = 100,
                          ![id].Results = results, ![id].CompletedAt = TRUE]
    ELSE statuses

\* QueueManager.removeFromQueue
removeFromQueue(q, id) == Renumber(RemoveFirst(q, id))

\* the jobs whose progress a write lowers
Lowered(old, new) == {id \in DOMAIN old : new[id].Progress < old[id].Progress}

\* processRequest: m.updateStatus(req.ID, models.StatusProcessing, 0)
MarkProcessing(w) ==
    /\ pc[w] = "start"
    /\ statuses' = updateStatus(req[w], StatusProcessing, 0)
    /\ pc' = [pc EXCEPT ![w] = "getchan"]
    /\ hist' = [hist EXCEPT !.dec = @ \cup Lowered(statuses, statuses')]
    /\ last' = Internal
    /\ UNCHANGED <<obs, limits, config, ready, service, sup, call, requests, queue, cancelChans, closed,
                   processingChan, req, cancelChan, expired, gen>>

\* processRequest: cancelChan := m.cancelChans[req.ID] (nil when the entry
\* is gone), then context.WithTimeout starts the job's timer
GetCancelChan(w) ==
    /\ pc[w] = "getchan"
    /\ cancelChan' = [cancelChan EXCEPT ![w] =
                        IF req[w] \in cancelChans THEN "chan" ELSE "nil"]
    /\ expired' = [expired EXCEPT ![w] = FALSE]
    /\ pc' = [pc EXCEPT ![w] = "select"]
    /\ last' = Internal
    /\ UNCHANGED <<obs, limits, config, ready, service, sup, call, requests, queue, statuses, cancelChans, closed,
                   processingChan, req, gen, hist>>

\* the timer of timeoutCtx fires while the job is being processed
Expire(w) ==
    /\ pc[w] \in {"select", "mock", "submit", "poll"}
    /\ ~expired[w]
    /\ expired' = [expired EXCEPT ![w] = TRUE]
    /\ last' = Internal
    /\ UNCHANGED <<obs, limits, config, ready, service, sup, call, requests, queue, statuses, cancelChans, closed,
                   processingChan, pc, req, cancelChan, gen, hist>>

\* a receive from a nil channel is never ready; from a closed one always
CancelReady(w) == cancelChan[w] = "chan" /\ req[w] \in closed

\* processRequest: the select statement; default runs only when no case
\* is ready, and a ready case is chosen at random.  In the default branch
\* Generate is entered: the placeholder path when the engine is not ready.
Select(w) ==
    /\ pc[w] = "select"
    /\ \/ /\ CancelReady(w)
          /\ pc' = [pc EXCEPT ![w] = "cancelled"]
          /\ gen' = gen
       \/ /\ expired[w]
          /\ pc' = [pc EXCEPT ![w] = "timeout"]
          /\ gen' = gen
       \/ /\ ~CancelReady(w)
          /\ ~expired[w]
          /\ pc' = [pc EXCEPT ![w] = IF ready THEN "submit" ELSE "mock"]
          /\ gen' = [gen EXCEPT ![w] = [NoGen EXCEPT !.step = 1]]
    /\ last' = Internal
    /\ UNCHANGED <<obs, limits, config, ready, service, sup, call, requests, queue, statuses, cancelChans, closed,
                   processingChan, req, cancelChan, expired, hist>>

\* processRequest returns to the loop of processWorker; its locals are gone
Return(w) ==
    /\ pc' = [pc EXCEPT ![w] = "idle"]
    /\ req' = [req EXCEPT ![w] = 0]
    /\ cancelChan' = [cancelChan EXCEPT ![w] = "nil"]
    /\ expired' = [expired EXCEPT ![w] = FALSE]
    /\ gen' = [gen EXCEPT ![w] = NoGen]

\* processRequest, case <-cancelChan: updateStatus(cancelled, 100); return
WriteCancelled(w) ==
    /\ pc[w] = "cancelled"
    /\ statuses' = updateStatus(req[w], StatusCancelled, 100)
    /\ Return(w)
    /\ last' = Internal
    /\ UNCHANGED <<obs, limits, config, ready, service, sup, call, requests, queue, cancelChans, closed,
                   processingChan, hist>>

\* processRequest, case <-timeoutCtx.Done(): updateStatusWithError; return
WriteTimeout(w) ==
    /\ pc[w] = "timeout"
    /\ statuses' = updateStatusWithError(req[w], StatusFailed, "Generation timeout")
    /\ Return(w)
    /\ last' = Internal
    /\ UNCHANGED <<obs, limits, config, ready, service, sup, call, requests, queue, cancelChans, closed,
                   processingChan, hist>>

\* ---- inference engine: PythonEngine.Generate ----------------------------

\* mockGenerate: progress := float64(step) / float64(req.Steps) * 100
Percent(step, steps) == (step * 100) \div steps

\* one GenerationResult of the placeholder path, and one of the service
MockResult == [mock |-> TRUE]
RealResult == [mock |-> FALSE]

\* mockGenerate: one iteration of the inner loop.  When the context is done
\* it returns the error; otherwise it sleeps and reports the step, appends
\* the image's result after the last step, and returns after the last image.
MockStep(w) ==
    /\ pc[w] = "mock"
    /\ LET r == requests[req[w]]
           g == gen[w]
           lastStep == g.step = r.Steps
           results == IF lastStep THEN Append(g.results, MockResult) ELSE g.results
       IN  IF expired[w]
           THEN /\ gen' = [gen EXCEPT ![w].err = "generation cancelled"]
                /\ pc' = [pc EXCEPT ![w] = "failed"]
                /\ statuses' = statuses
           ELSE /\ statuses' = updateProgress(req[w], Percent(g.step, r.Steps), g.step)
                /\ gen' = [gen EXCEPT ![w] =
                             [i |-> IF lastStep THEN g.i + 1 ELSE g.i,
                              step |-> IF lastStep THEN 1 ELSE g.step + 1,
                              results |-> results,
                              err |-> NoError,
                              answer |-> g.answer]]
                /\ pc' = [pc EXCEPT ![w] =
                            IF lastStep /\ g.i + 1 = r.BatchSize
                            THEN "generated" ELSE "mock"]
    /\ hist' = [hist EXCEPT !.dec = @ \cup Lowered(statuses, statuses')]
    /\ last' = Internal
    /\ UNCHANGED <<obs, limits, config, ready, service, sup, call, requests, queue, cancelChans, closed,
                   processingChan, req, cancelChan, expired>>

\* the external process stops answering, or answers again
ServiceChange ==
    /\ service' = IF service = "up" THEN "down" ELSE "up"
    /\ last' = Internal
    /\ UNCHANGED <<obs, limits, config, ready, sup, call, requests, queue, statuses, cancelChans,
                   closed, processingChan, wvars, hist>>

\* the errors of the remote path: the submit answer is not "accepted", the
\* GET of the job status fails, processResults fails, the job has failed
ErrNotAccepted == "generation not accepted"
ErrJobStatus == "job status unavailable"
ErrSaveImage == "failed to save image"
ErrRemoteFailed == "generation failed: remote"

\* the error messages the external process reports with status failed
RemoteMessages == {"remote"}

\* fmt.Errorf("generation failed: %s", status.Error)
GenerationFailed(m) == CASE m = "remote" -> ErrRemoteFailed

\* what the POST to /generate can come back with: a transport error
\* (always, when the service is down), or an answer whose status is
\* "accepted" or anything else
SubmitAnswers == IF service = "up" THEN {"unreachable", "rejected", "accepted"}
                 ELSE {"unreachable"}

\* Generate after the POST: a transport error falls back to mockGenerate,
\* an answer that is not "accepted" is returned as an error, otherwise
\* polling starts (mutant: a rejected request falls back as well)
AfterSubmitMut(answer) ==
    IF answer = "accepted" THEN "poll" ELSE "mock"
AfterSubmit(answer) ==
    IF answer = "unreachable" THEN "mock"
    ELSE IF answer = "accepted" THEN "poll"
    ELSE "failed"

\* Generate with the service ready: the POST to /generate
Submit(w) ==
    /\ pc[w] = "submit"
    /\ \E answer \in SubmitAnswers :
          /\ pc' = [pc EXCEPT ![w] = AfterSubmit(answer)]
          /\ gen' = [gen EXCEPT ![w].answer = answer,
                                ![w].err = IF AfterSubmit(answer) = "failed"
                                           THEN ErrNotAccepted ELSE @]
    /\ last' = Internal
    /\ UNCHANGED <<obs, limits, config, ready, service, sup, call, requests, queue, statuses, cancelChans, closed,
                   processingChan, req, cancelChan, expired, hist>>

\* Generate: one turn of the polling loop.  ctx.Done() returns the error
\* "generation cancelled".  A tick fetches the job status, which fails when
\* the service cannot be reached (always, when it is down) and is then
\* returned as the error; an answer reports the remote progress when it has
\* total_steps > 0, and ends the loop on "completed" (processResults, which
\* may fail) or "failed".  processResults maps each entry of status.Results
\* into one result, so the list has as many entries as the service reported.
Poll(w) ==
    /\ pc[w] = "poll"
    /\ \/ /\ expired[w]
          /\ gen' = [gen EXCEPT ![w].err = "generation cancelled"]
          /\ pc' = [pc EXCEPT ![w] = "failed"]
          /\ statuses' = statuses
       \/ /\ gen' = [gen EXCEPT ![w].err = ErrJobStatus, ![w].answer = "unreachable"]
          /\ pc' = [pc EXCEPT ![w] = "failed"]
          /\ statuses' = statuses
       \/ /\ service = "up"
          /\ \/ statuses' = statuses
             \/ \E p \in RemoteProgress : statuses' = updateProgress(req[w], p, 1)
          /\ \/ UNCHANGED <<gen, pc>>
             \/ /\ \E n \in 0..limits.batch :
                      gen' = [gen EXCEPT ![w].results = [k \in 1..n |-> RealResult]]
                /\ pc' = [pc EXCEPT ![w] = "generated"]
             \/ /\ gen' = [gen EXCEPT ![w].err = ErrSaveImage]
                /\ pc' = [pc EXCEPT ![w] = "failed"]
             \/ /\ \E m \in RemoteMessages :
                      gen' = [gen EXCEPT ![w].err = GenerationFailed(m), ![w].answer = m]
                /\ pc' = [pc EXCEPT ![w] = "failed"]
    /\ hist' = [hist EXCEPT !.dec = @ \cup Lowered(statuses, statuses')]
    /\ last' = Internal
    /\ UNCHANGED <<obs, limits, config, ready, service, sup, call, requests, queue, cancelChans, closed,
                   processingChan, req, cancelChan, expired>>

\* ---- external process supervisor: PythonServiceManager ---------------------

\* the queue manager's variables and the placeholder call, which the
\* supervisor never touches
nonsup == <<limits, config, ready, requests, queue, statuses, cancelChans, closed,
            processingChan, wvars, hist, call, obs>>

\* Stop, with killed: whether the process is gone afterwards (on Unix it is
\* interrupted and killed after 5 s; on Windows taskkill may fail, which is
\* only logged).  Nothing happens without a started command.
StopOf(s, killed) ==
    IF s.cmd \in {CmdNil, CmdUnstarted} THEN s
    ELSE [s EXCEPT !.own[s.cmd] = IF killed THEN "exited" ELSE @,
                   !.isRunning = FALSE,
                   !.cmd = CmdNil]

\* whether the kill of Stop can succeed, can fail
KillOutcomes(s) == IF s.goos = "windows" THEN {TRUE, FALSE} ELSE {TRUE}

ErrStart == "start failed"

\* Start with the service already healthy: m.isRunning = true; return nil
\* (mutant: a process is launched all the same)
AdoptMut(s) ==
    IF Len(s.own) < MaxLaunch
    THEN [s EXCEPT !.isRunning = TRUE, !.own = Append(@, "healthy"),
                   !.cmd = Len(s.own) + 1]
    ELSE [s EXCEPT !.isRunning = TRUE]
Adopt(s) == [s EXCEPT !.isRunning = TRUE]

\* PythonServiceManager.Start.  An already healthy service is adopted.
\* Otherwise Start fails before the command exists (the service directory
\* is missing, or the virtual environment is missing and cannot be set up),
\* or it has a virtual environment (set up now if it was missing) and
\* fails after m.cmd is assigned (pipes, cmd.Start), or launches the
\* process and waits for it to be healthy: on success isRunning is set, on
\* timeout Stop is called and the error returned.
\* what Start returns after loadDefaultModel: its failure is logged as a
\* warning (mutant: the failure is returned)
LoadErrorMut(loaded) == IF loaded THEN NoError ELSE ErrStart
LoadError(loaded) == NoError

Start ==
    /\ \/ /\ isHealthy(sup)
          /\ sup' = Adopt(sup)
          /\ last' = Ret("Start", 0, 0, NoError)
       \/ /\ ~isHealthy(sup)
          /\ \/ /\ sup' = sup
                /\ last' = Ret("Start", 0, 0, ErrStart)
             \/ /\ sup' = [sup EXCEPT !.cmd = CmdUnstarted, !.venv = TRUE]
                /\ last' = Ret("Start", 0, 0, ErrStart)
             \/ /\ Len(sup.own) < MaxLaunch
                /\ LET pid == Len(sup.own) + 1 IN
                   \/ \E loaded \in BOOLEAN :
                         /\ sup' = [sup EXCEPT !.own = Append(@, "healthy"),
                                               !.cmd = pid, !.isRunning = TRUE,
                                               !.venv = TRUE, !.model = loaded]
                         /\ last' = Ret("Start", 0, 0, LoadError(loaded))
                   \/ /\ \E killed \in KillOutcomes(sup) :
                            sup' = StopOf([sup EXCEPT !.own = Append(@, "silent"),
                                                     !.cmd = pid, !.venv = TRUE],
                                          killed)
                      /\ last' = Ret("Start", 0, 0, ErrStart)
    /\ service' = ServiceOf(sup')
    /\ UNCHANGED nonsup

\* PythonServiceManager.Stop
Stop ==
    /\ \E killed \in KillOutcomes(sup) : sup' = StopOf(sup, killed)
    /\ last' = Ret("Stop", 0, 0, NoError)
    /\ service' = ServiceOf(sup')
    /\ UNCHANGED nonsup

\* a launched process starts or stops answering /health, or exits
ProcessChange ==
    /\ \E p \in DOMAIN sup.own, st \in {"healthy", "silent", "exited"} :
          /\ sup.own[p] \notin {"exited", st}
          /\ sup' = [sup EXCEPT !.own[p] = st]
    /\ last' = Internal
    /\ service' = ServiceOf(sup')
    /\ UNCHANGED nonsup

\* a process started by somebody else appears on the service URL, or goes
ForeignChange ==
    /\ sup' = [sup EXCEPT !.foreign = ~@]
    /\ last' = Internal
    /\ service' = ServiceOf(sup')
    /\ UNCHANGED nonsup

\* ---- the placeholder path on its own --------------------------------------

\* the variables of the queue manager and its workers
qvars == <<limits, config, ready, requests, queue, statuses, cancelChans, closed,
           processingChan, wvars, last, hist>>

\* results[i] of mockGenerate: PythonEngine puts "mock": "true" into the
\* Metadata map, ONNXEngine has no such key
EngineResult(engine, r) ==
    [Width |-> r.Width, Height |-> r.Height, mock |-> engine = "python"]

\* the context of the call is cancelled or its deadline passes
CtxDone ==
    /\ call.ret = "running"
    /\ ~call.done
    /\ call' = [call EXCEPT !.done = TRUE]
    /\ UNCHANGED <<qvars, service, sup, obs>>

\* PythonEngine.mockGenerate and ONNXEngine.mockGenerate: one iteration of
\* the inner loop.  A done context returns nil and the error; otherwise the
\* step is reported, and after the last step the image's result is stored
\* (ONNXEngine first saves the image, and returns the error if that fails);
\* after the last image the results are returned.
MockGenerateStep ==
    /\ call.ret = "running"
    /\ LET r == call.req
           lastStep == call.step = r.Steps
           calls == Append(call.calls,
                           [progress |-> Percent(call.step, r.Steps), step |-> call.step])
       IN  IF call.done
           THEN call' = [call EXCEPT !.ret = "error", !.results = <<>>]
           ELSE IF ~lastStep
           THEN call' = [call EXCEPT !.calls = calls, !.step = @ + 1]
           ELSE \/ /\ call.engine = "onnx"
                   /\ call' = [call EXCEPT !.calls = calls, !.ret = "error",
                                           !.results = <<>>]
                \/ call' = [call EXCEPT
                              !.calls = calls,
                              !.step = 1,
                              !.i = @ + 1,
                              !.results = Append(@, EngineResult(call.engine, r)),
                              !.ret = IF call.i + 1 = r.BatchSize
                                      THEN "ok" ELSE "running"]
    /\ UNCHANGED <<qvars, service, sup, obs>>

\* processRequest, default branch, err != nil: updateStatusWithError; return
WriteFailed(w) ==
    /\ pc[w] = "failed"
    /\ statuses' = updateStatusWithError(req[w], StatusFailed, gen[w].err)
    /\ Return(w)
    /\ last' = Internal
    /\ UNCHANGED <<obs, limits, config, ready, service, sup, call, requests, queue, cancelChans, closed,
                   processingChan, hist>>

\* processRequest, default branch: updateStatusWithResults(completed)
WriteCompleted(w) ==
    /\ pc[w] = "generated"
    /\ statuses' = updateStatusWithResults(req[w], StatusCompleted, gen[w].results)
    /\ pc' = [pc EXCEPT ![w] = "remove"]
    /\ last' = Internal
    /\ UNCHANGED <<obs, limits, config, ready, service, sup, call, requests, queue, cancelChans, closed,
                   processingChan, req, cancelChan, expired, gen, hist>>

\* processRequest: m.removeFromQueue(req.ID), then return to the worker loop
RemoveFromQueue(w) ==
    /\ pc[w] = "remove"
    /\ queue' = removeFromQueue(queue, req[w])
    /\ Return(w)
    /\ last' = Internal
    /\ UNCHANGED <<obs, limits, config, ready, service, sup, call, requests, statuses, cancelChans, closed,
                   processingChan, hist>>

\* ---- specification ------------------------------------------------------

WorkerStep(w) ==
    \/ Receive(w)
    \/ MarkProcessing(w)
    \/ GetCancelChan(w)
    \/ Expire(w)
    \/ Select(w)
    \/ WriteCancelled(w)
    \/ WriteTimeout(w)
    \/ MockStep(w)
    \/ WriteFailed(w)
    \/ WriteCompleted(w)
    \/ RemoveFromQueue(w)

Next ==
    \/ \E id \in JobIds, steps \in 1..limits.steps, batch \in 1..limits.batch :
          Enqueue(id, steps, batch) /\ UNCHANGED http
    \/ \E id \in JobIds : Cancel(id)
    \/ StartProcessor
    \/ \E w \in Workers : WorkerStep(w)

\* with the service ready, Generate submits and polls
NextRemote ==
    \/ Next
    \/ \E w \in Workers : Submit(w) \/ Poll(w)
    \/ ServiceChange

\* the callers also read job statuses
NextStatus ==
    \/ Next
    \/ \E id \in JobIds : GetStatus(id)

\* a mockGenerate call runs to its return
NextMock ==
    \/ MockGenerateStep
    \/ CtxDone

\* the main program starts and stops the service; processes come and go
NextSup ==
    \/ Start
    \/ Stop
    \/ ProcessChange
    \/ ForeignChange

Spec == Init /\ [][Next]_vars

SpecSup == InitSup /\ [][NextSup]_vars

SpecMock == InitMock /\ [][NextMock]_vars

SpecStatus == Init /\ [][NextStatus]_vars

SpecGen == InitGen /\ [][Next]_vars

SpecRemote == InitRemote /\ [][NextRemote]_vars

\* ---- properties ---------------------------------------------------------

Status(id) == statuses[id].Status
Buffered == {processingChan[i] : i \in 1..Len(processingChan)}
EnqueueReturned == last.op = "Enqueue" /\ last.err = NoError

\* C1: once a job's status is cancelled, no step changes it to completed
\* or failed.
CancellationFinality ==
    [][\A id \in DOMAIN statuses :
          Status(id) = StatusCancelled
          => statuses'[id].Status \notin {StatusCompleted, StatusFailed}]_vars

LegalTransitions ==
    {<<StatusQueued, StatusProcessing>>, <<StatusQueued, StatusCancelled>>,
     <<StatusProcessing, StatusCompleted>>, <<StatusProcessing, StatusFailed>>,
     <<StatusProcessing, StatusCancelled>>}

\* C2: the only transitions a job's status makes are queued->processing,
\* queued->cancelled, processing->completed, processing->failed and
\* processing->cancelled; so a job cancelled while queued never becomes
\* processing.
OnlyLegalTransitions ==
    [][\A id \in DOMAIN statuses :
          statuses'[id].Status # Status(id)
          => <<Status(id), statuses'[id].Status>> \in LegalTransitions]_vars

\* C3: the record of a job that is completed or failed never changes again.
CompletedFailedAbsorbing ==
    [][\A id \in DOMAIN statuses :
          Status(id) \in {StatusCompleted, StatusFailed}
          => statuses'[id] = statuses[id]]_vars

\* C4: when Enqueue has returned a position, the request is in the dispatch
\* buffer.
EnqueuedIsPublished == EnqueueReturned => last.id \in Buffered

\* C5: when processRequest returns, the job it ran is no longer in the
\* pending list.
ReturnedJobLeftQueue ==
    [][\A w \in Workers :
          pc[w] \notin {"off", "idle"} /\ pc'[w] = "idle"
          => req[w] \notin Ids(queue')]_vars

\* C6: each entry of the pending list has Position equal to its 1-based
\* index in the list.
PositionIsIndex == \A i \in 1..Len(queue) : queue[i].Position = i

\* C7, as claimed: with no Cancel so far, the k-th successful Enqueue
\* returns position k, whatever the workers have done.
PositionIsSubmissionRank ==
    EnqueueReturned /\ closed = {} => last.pos = last.id

\* the jobs that have left the pending list
Left == {id \in DOMAIN requests : id \notin Ids(queue)}

\* C7, amended: with no Cancel so far, the k-th successful Enqueue returns
\* k minus the number of earlier jobs that workers have removed from the
\* pending list after completing them.
PositionIsPendingRank ==
    EnqueueReturned /\ closed = {} => last.pos = last.id - Cardinality(Left)

PositionAfterRemoval ==
    EnqueueReturned /\ closed = {} /\ last.pos < last.id

\* C8: with MaxQueueSize entries pending, Enqueue returns ErrQueueFull and
\* leaves the pending list, the status table, the cancel-signal table and
\* the dispatch buffer unchanged; the pending list never holds more than
\* MaxQueueSize entries.
CapacityBound ==
    [][/\ last'.op = "Enqueue" /\ Len(queue) >= config.MaxQueueSize
          => /\ last'.err = ErrQueueFull
             /\ UNCHANGED <<queue, statuses, cancelChans, closed, processingChan>>
       /\ Len(queue') <= config.MaxQueueSize]_vars

RejectedWhenFull ==
    /\ last.op = "Enqueue"
    /\ last.err = ErrQueueFull
    /\ Len(queue) = config.MaxQueueSize

\* a job's status becomes processing for the first time
Started(id) == statuses[id].StartedAt
Starts(id) == ~Started(id) /\ statuses'[id].StartedAt

\* no job submitted later than one that starts now has started before it
StartsInOrder ==
    \A a \in DOMAIN statuses :
        Starts(a) => \A b \in DOMAIN statuses : b > a => ~Started(b)

\* C9, as claimed: for any number of workers, jobs become processing in the
\* order in which they were enqueued.
FifoProcessing == [][StartsInOrder]_vars

\* C9, amended: workers take requests from the dispatch buffer in the order
\* in which they were enqueued, and with a single worker jobs also become
\* processing in that order.
FifoDispatch ==
    [][/\ \A w \in Workers :
             pc[w] = "idle" /\ pc'[w] = "start"
             => \A b \in hist.recv : b < req'[w]
       /\ config.MaxConcurrent = 1 => StartsInOrder]_vars

TwoDispatched ==
    /\ config.MaxConcurrent = 2
    /\ \E a, b \in hist.recv : a < b /\ Started(a) /\ Started(b)

\* C10: the progress values written for a job that ends completed never
\* decrease, and the last one is 100.
ProgressMonotone ==
    \A id \in DOMAIN statuses :
        Status(id) = StatusCompleted
        => id \notin hist.dec /\ statuses[id].Progress = 100

\* the statuses a job that has not been cancelled may move between
HappyTransitions ==
    {<<StatusQueued, StatusProcessing>>, <<StatusProcessing, StatusCompleted>>,
     <<StatusProcessing, StatusFailed>>}

\* a job that was never cancelled only moves queued -> processing ->
\* completed or failed, and Generate's results complete it with progress 100
HappySequence(id) ==
    /\ id \in DOMAIN statuses /\ statuses'[id].Status # Status(id)
       => <<Status(id), statuses'[id].Status>> \in HappyTransitions
    /\ statuses'[id].Status = StatusCompleted => statuses'[id].Progress = 100

\* C11, as claimed: a job that is never cancelled and whose Generate returns
\* results has status queued, then processing, then completed and no other;
\* when it is completed its progress is 100 and its result list has exactly
\* batch_size entries.
HappyPath ==
    [][\A id \in DOMAIN statuses' :
          id \notin closed'
          => /\ HappySequence(id)
             /\ statuses'[id].Status = StatusCompleted
                => Len(statuses'[id].Results) = requests'[id].BatchSize]_vars

\* C11, amended: the same sequence and progress; the result list is the one
\* Generate returned, which has exactly batch_size entries whenever it holds
\* a result of the placeholder path (from the external service it has as
\* many entries as the service reported).
HappyPathResults ==
    [][\A id \in DOMAIN statuses' :
          id \notin closed'
          => /\ HappySequence(id)
             /\ statuses'[id].Status = StatusCompleted
                => \/ Len(statuses'[id].Results) = requests'[id].BatchSize
                   \/ \A k \in DOMAIN statuses'[id].Results :
                         ~statuses'[id].Results[k].mock]_vars

\* a job completed on the placeholder path with two results, never cancelled
HappyPlaceholderDone ==
    \E id \in DOMAIN statuses :
        /\ id \notin closed
        /\ Status(id) = StatusCompleted
        /\ Len(statuses[id].Results) = 2
        /\ statuses[id].Results[1].mock

\* the positions of a worker inside Generate
InGenerate == {"mock", "submit", "poll"}

\* C12: a worker inside Generate whose cancel signal is tripped (the channel
\* it holds has been closed by Cancel after Generate began) takes no further
\* step of Generate: it observes the signal (or the timeout) and returns
\* from processRequest.
CancelAbandonsGenerate ==
    [][\A w \in Workers :
          pc[w] \in InGenerate /\ CancelReady(w)
          => \/ pc'[w] = pc[w] /\ gen'[w] = gen[w]
             \/ pc'[w] \in {"cancelled", "timeout", "idle"}]_vars

\* the error Generate returns when its context is done
ErrGenerationCancelled == "generation cancelled"

\* C13: a job that was never cancelled and whose timeout elapsed ends failed
\* with an error that indicates a timeout: no failed job that was never
\* cancelled carries the cancellation error.
TimeoutErrorIndicatesTimeout ==
    \A id \in DOMAIN statuses :
        Status(id) = StatusFailed /\ id \notin closed
        => statuses[id].Error # ErrGenerationCancelled

\* the ids of the pending list in order, and the same without one id
IdSeq(q) == [i \in 1..Len(q) |-> q[i].id]
Without(seq, id) == SelectSeq(seq, LAMBDA x : x # id)

NotFoundOnlyForUnknown ==
    [][last'.op \in {"Cancel", "GetStatus"}
       => /\ last'.id \notin DOMAIN requests
             => /\ last'.err = ErrGenerationNotFound
                /\ UNCHANGED <<queue, statuses, cancelChans, closed, processingChan>>
          /\ last'.id \in DOMAIN requests /\ last'.op = "GetStatus"
             => last'.err = NoError]_vars

\* GetStatus has just rejected an id that was never enqueued while other
\* jobs are pending
UnknownIdRejected ==
    /\ last.op = "GetStatus" /\ last.err = ErrGenerationNotFound
    /\ last.id \notin DOMAIN requests
    /\ queue # <<>>

\* C16: a transport failure at any point of Generate is absorbed: no job
\* ends failed with the error of an unreachable service.
TransportFailureAbsorbed ==
    \A id \in DOMAIN statuses :
        Status(id) = StatusFailed => statuses[id].Error # ErrJobStatus

\* C17: at every Generate call made while the external process is not
\* running, Generate takes the placeholder path and not the submission to
\* the service, whatever Initialize observed.
PlaceholderWhenDown ==
    [][\A w \in Workers :
          pc[w] = "select" /\ pc'[w] \in {"submit", "mock"} /\ service = "down"
          => pc'[w] = "mock"]_vars

\* C19: when the service answers the submit request with a status other
\* than accepted, Generate returns an error with no results, without polling
\* and without the placeholder path, and the worker's next step writes the
\* job failed.
RejectedSubmitFails ==
    [][\A w \in Workers :
          /\ gen'[w].answer = "rejected"
             => pc'[w] = "failed" /\ gen'[w].results = <<>>
          /\ gen[w].answer = "rejected" /\ pc'[w] # pc[w]
             => /\ pc'[w] = "idle"
                /\ statuses'[req[w]].Status = StatusFailed
                /\ statuses'[req[w]].Error = ErrNotAccepted
                /\ statuses'[req[w]].Results = <<>>]_vars

\* a job has ended failed because its submission was not accepted
RejectedJobFailed ==
    \E id \in DOMAIN statuses :
        /\ Status(id) = StatusFailed
        /\ statuses[id].Error = ErrNotAccepted
        /\ id \notin closed

\* C18: a placeholder call that returns results returns exactly batch_size of
\* them, each with the requested width and height and tagged mock=true, and
\* has invoked the progress callback with the steps 1..Steps for each image,
\* the step never above Steps and the progress never above 100.
PlaceholderContract ==
    call.engine # "none" /\ call.ret = "ok"
    => /\ Len(call.results) = call.req.BatchSize
       /\ \A k \in DOMAIN call.results :
             /\ call.results[k].Width = call.req.Width
             /\ call.results[k].Height = call.req.Height
             /\ call.results[k].mock
       /\ Len(call.calls) = call.req.Steps * call.req.BatchSize
       /\ \A j \in DOMAIN call.calls :
             /\ call.calls[j].step = ((j - 1) % call.req.Steps) + 1
             /\ call.calls[j].progress <= 100

\* C20: when Stop returns, IsRunning() is false and no process the manager
\* launched or adopted is alive, whatever Start and Stop calls came before.
StoppedAfterStop ==
    [][last'.op = "Stop"
       => /\ ~IsRunning(sup')
          /\ \A p \in DOMAIN sup'.own : sup'.own[p] = "exited"]_vars

\* Start launched a process in this step that did not come up healthy
LaunchTimedOut ==
    /\ last'.op = "Start"
    /\ Len(sup'.own) = Len(sup.own) + 1
    /\ sup'.own[Len(sup'.own)] # "healthy"

\* C21: when the process Start launched does not become healthy before the
\* deadline, Start returns an error, the process has been stopped, and
\* IsRunning() is false afterwards.
StartTimeoutStops ==
    [][LaunchTimedOut
       => /\ last'.err = ErrStart
          /\ sup'.own[Len(sup'.own)] = "exited"
          /\ ~IsRunning(sup')]_vars

\* C22: a Start made while the health probe succeeds returns OK, launches no
\* process and sets up no virtual environment: the processes, the command
\* handle and the environment are those from before the call.
StartIdempotent ==
    [][last'.op = "Start" /\ isHealthy(sup)
       => /\ last'.err = NoError
          /\ sup'.own = sup.own
          /\ sup'.foreign = sup.foreign
          /\ sup'.cmd = sup.cmd
          /\ sup'.venv = sup.venv]_vars

\* Start has returned OK having adopted a service it did not launch, with
\* no virtual environment set up
AdoptedWithoutLaunch ==
    /\ last.op = "Start" /\ last.err = NoError
    /\ sup.isRunning /\ sup.foreign
    /\ sup.own = <<>> /\ sup.cmd = CmdNil /\ ~sup.venv

\* some process answers the health probe
SomeHealthy(s) == s.foreign \/ \E p \in DOMAIN s.own : s.own[p] = "healthy"

\* C23, as claimed: IsRunning() is true exactly when the health endpoint
\* currently responds successfully.
RunningIffHealthy == IsRunning(sup) <=> SomeHealthy(sup)

\* C23, amended: IsRunning() is true only when some process answers the
\* health probe, so a process whose handle exists but whose probe fails is
\* reported not running; a healthy process is reported running once a Start
\* has returned OK, and only a Start that returns OK raises the flag.
RunningOnlyIfHealthy ==
    [][/\ IsRunning(sup') => SomeHealthy(sup')
       /\ ~sup.isRunning /\ sup'.isRunning
          => last'.op = "Start" /\ last'.err = NoError
       /\ last'.op = "Start" /\ last'.err = NoError => IsRunning(sup')]_vars

\* the process the manager started is alive but does not answer the
\* probe, and is reported not running
HungReportedNotRunning ==
    /\ sup.cmd >= 1
    /\ sup.own[sup.cmd] = "silent"
    /\ sup.isRunning
    /\ ~IsRunning(sup)

\* ---------------------------------------------------------------------------
\* One status record read by the status handler while the manager writes it.
\* GetStatus returns the manager's own *GenerationStatus under RLock; the
\* handler serializes it after the lock is released, field by field in struct
\* order, while each writer assigns the fields one by one under the write lock.

MaxWrites == 3

Fields == <<"Status", "Progress", "Results", "Error", "CompletedAt">>

\* Enqueue's record
NewStatusRecord == [Status |-> "queued", Progress |-> 0, Results |-> <<>>,
                    Error |-> "", CompletedAt |-> FALSE]

Unread == [Status |-> "unread", Progress |-> -1, Results |-> <<>>,
           Error |-> "unread", CompletedAt |-> FALSE]

\* the assignments of updateStatus(id, status, progress), in order
updateStatusWrites(status, progress) ==
    <<  <<"Status", status>>, <<"Progress", progress>>  >>

\* the assignments of updateProgress
updateProgressWrites(progress) == <<  <<"Progress", progress>>  >>

\* the assignments of updateStatusWithError
updateStatusWithErrorWrites(err) ==
    <<  <<"Status", "failed">>, <<"Error", err>>, <<"CompletedAt", TRUE>>  >>

\* the assignments of Cancel
CancelWrites == <<  <<"Status", "cancelled">>, <<"CompletedAt", TRUE>>  >>

\* Results after make([]GenerationResult, n) and k of its entries filled
ResultsFilled(n, k) == [i \in 1..n |-> IF i <= k THEN "image" ELSE "zero"]

\* the assignments of updateStatusWithResults for n results, in order
updateStatusWithResultsWrites(n) ==
    <<  <<"Status", "completed">>, <<"Progress", 100>>  >>
    \o [k \in 1..(n + 1) |-> <<"Results", ResultsFilled(n, k - 1)>>]
    \o <<  <<"CompletedAt", TRUE>>  >>

\* the writes the manager can start on a record in this status
WriteOps(rec) ==
    IF rec.Status = "queued"
    THEN {updateStatusWrites("processing", 0), CancelWrites}
    ELSE IF rec.Status = "processing"
    THEN {updateProgressWrites(50), updateStatusWithErrorWrites(ErrGenerationCancelled),
          CancelWrites}
         \cup {updateStatusWithResultsWrites(n) : n \in 1..MaxBatch}
    ELSE {}

InitRead ==
    /\ sup = NoSup
    /\ service = "down"
    /\ call = NoCall
    /\ ready = FALSE
    /\ limits = [steps |-> QueueSteps, batch |-> MaxBatch]
    /\ config = [MaxQueueSize |-> MaxQueueSize, MaxConcurrent |-> 1]
    /\ InitManager
    /\ view = NoView
    /\ http = NoHttp
    /\ codec = NoCodec
    /\ pics = NoPics
    /\ rd = [rec |-> NewStatusRecord, todo |-> <<>>, writes |-> 0, r |-> 0,
             snap |-> Unread, committed |-> {NewStatusRecord}]

rest == <<view, codec, pics, http, limits, config, ready, service, sup, call, requests, queue, statuses,
          cancelChans, closed, processingChan, wvars, last, hist>>

\* a writer takes m.mu (no reader holds the read lock inside GetStatus: that
\* critical section is a single step here)
BeginWrite ==
    /\ rd.todo = <<>>
    /\ rd.writes < MaxWrites
    /\ \E op \in WriteOps(rd.rec) :
           rd' = [rd EXCEPT !.todo = op, !.writes = @ + 1]
    /\ UNCHANGED rest

\* the next assignment of the writer; the lock is released after the last
WriteField ==
    /\ rd.todo # <<>>
    /\ LET rec == [rd.rec EXCEPT ![rd.todo[1][1]] = rd.todo[1][2]]
           todo == Tail(rd.todo)
       IN  rd' = [rd EXCEPT !.rec = rec, !.todo = todo,
                            !.committed = IF todo = <<>> THEN @ \cup {rec} ELSE @]
    /\ UNCHANGED rest

\* GetStatus: under RLock, returns the pointer to the record
GetStatusPointer ==
    /\ rd.r = 0
    /\ rd.todo = <<>>
    /\ rd' = [rd EXCEPT !.r = 1]
    /\ UNCHANGED rest

\* c.JSON(http.StatusOK, status): the next field is read, no lock held
ReadField ==
    /\ rd.r \in 1..Len(Fields)
    /\ rd' = [rd EXCEPT !.snap[Fields[rd.r]] = rd.rec[Fields[rd.r]], !.r = @ + 1]
    /\ UNCHANGED rest

NextRead == BeginWrite \/ WriteField \/ GetStatusPointer \/ ReadField

SpecRead == InitRead /\ [][NextRead]_vars

SnapshotDone == rd.r = Len(Fields) + 1

\* C24: every snapshot a caller has read equals the record as it was after
\* some complete write: never completed together with progress below 100 or
\* with results missing.
SnapshotIsCommitted == SnapshotDone => rd.snap \in rd.committed

\* ---------------------------------------------------------------------------
\* The listing GetQueue returns. items is a new slice holding the manager's
\* own *QueueItem pointers, and each item's Status is the record m.statuses
\* holds; at is what the entries showed when GetQueue returned.

\* what the caller reads through entry k of its list: the item's Position
\* (as last assigned while the item was queued) and the record's Status
Shown(q, st, id, before) ==
    [Position |-> IF IndexOf(q, id) = 0 THEN before.Position
                  ELSE q[IndexOf(q, id)].Position,
     Status |-> st[id].Status]

\* GetQueue: items := make(...); copy(items, m.queue)
GetQueue ==
    /\ ~view.taken
    /\ view' = [taken |-> TRUE,
                items |-> [k \in 1..Len(queue) |-> queue[k].id],
                at |-> [k \in 1..Len(queue) |->
                           [Position |-> queue[k].Position,
                            Status |-> statuses[queue[k].id].Status]]]
    /\ last' = Ret("GetQueue", 0, Len(queue), NoError)
    /\ UNCHANGED <<rd, codec, pics, http, limits, config, ready, service, sup, call, requests,
                   queue, statuses, cancelChans, closed, processingChan, wvars, hist>>

\* the manager's operations, and a caller holding one listing
NextView ==
    \/ Next
    \/ GetQueue

ViewJobs == 2

InitView ==
    /\ rd = NoRead
    /\ view = NoView
    /\ http = NoHttp
    /\ codec = NoCodec
    /\ pics = NoPics
    /\ sup = NoSup
    /\ call = NoCall
    /\ ready = FALSE
    /\ service = "down"
    /\ limits = [jobs |-> ViewJobs, steps |-> QueueSteps, batch |-> QueueBatch]
    /\ config \in [MaxConcurrent : 1..MaxWorkers, MaxQueueSize : {MaxQueueSize}]
    /\ InitManager

SpecView == InitView /\ [][NextView]_vars

\* C25: after GetQueue returned, no Enqueue, Cancel or worker step changes
\* what the caller sees in the list: its members and their order, and the
\* Position and status of each entry.
ListingIsCopy ==
    [][view.taken =>
         /\ view'.items = view.items
         /\ \A k \in DOMAIN view.items :
               Shown(queue', statuses', view.items[k], Shown(queue, statuses, view.items[k], view.at[k]))
                 = Shown(queue, statuses, view.items[k], view.at[k])]_vars

\* ---------------------------------------------------------------------------
\* encryptIfNeeded / decryptIfNeeded on one payload. Strings are sequences
\* of bytes; a byte has ByteBits bits and a cipher block is BlockSize bytes.

ByteBits == 2
BlockSize == 1
MaxPayload == 2
MaxEncrypts == 2

Byte == 0..(2^ByteBits - 1)

Payloads == UNION {[1..n -> Byte] : n \in 0..MaxPayload}

\* INFERENCE_ENCRYPTION_SECRET, "" when unset
Secrets == {"", "s3cret"}

\* getOrCreateEncryptionKey: the digest of the secret, or of the default
\* secret when none is set
getOrCreateEncryptionKey(secret) ==
    IF secret = "" THEN 1 ELSE 2

\* bitwise exclusive or of two bytes
RECURSIVE XorBits(_, _, _)
XorBits(a, b, n) ==
    IF n = 0 THEN 0
    ELSE ((a + b) % 2) + 2 * XorBits(a \div 2, b \div 2, n - 1)

Xor(a, b) == XorBits(a, b, ByteBits)

\* the block cipher under a key, applied to one block (of one byte)
EncryptBlock(key, b) == (3 * b + key) % (2^ByteBits)

\* cipher.NewCFBEncrypter(block, iv).XORKeyStream: each byte is xored with
\* the encryption of the previous ciphertext block
RECURSIVE CFBEncrypter(_, _, _)
CFBEncrypter(key, prev, plain) ==
    IF plain = <<>> THEN <<>>
    ELSE LET c == Xor(EncryptBlock(key, prev), Head(plain))
         IN  <<c>> \o CFBEncrypter(key, c, Tail(plain))

\* the block the decrypter feeds back into the cipher: the ciphertext block
\* just consumed (mutant: the plaintext block just produced)
DecrypterFeedbackMut(c, p) == p
DecrypterFeedback(c, p) == c

\* cipher.NewCFBDecrypter(block, iv).XORKeyStream
RECURSIVE CFBDecrypter(_, _, _)
CFBDecrypter(key, prev, ct) ==
    IF ct = <<>> THEN <<>>
    ELSE LET p == Xor(EncryptBlock(key, prev), Head(ct))
         IN  <<p>> \o CFBDecrypter(key, DecrypterFeedback(Head(ct), p), Tail(ct))

\* base64.StdEncoding: one character of the alphabet ("A" is 65) per byte
Base64Base == 65
EncodeToString(bytes) == [i \in 1..Len(bytes) |-> Base64Base + bytes[i]]
IsBase64(str) == \A i \in 1..Len(str) : str[i] - Base64Base \in Byte
DecodeString(str) == [i \in 1..Len(str) |-> str[i] - Base64Base]

ErrTooShort == "ciphertext too short"
ErrIllegalBase64 == "illegal base64 data"

encryptIfNeeded(enabled, secret, data, iv) ==
    IF ~enabled THEN data
    ELSE EncodeToString(iv \o CFBEncrypter(getOrCreateEncryptionKey(secret),
                                           iv[BlockSize], data))

decryptIfNeeded(enabled, secret, data) ==
    IF ~enabled THEN [out |-> data, err |-> NoError]
    ELSE IF ~IsBase64(data) THEN [out |-> <<>>, err |-> ErrIllegalBase64]
    ELSE LET ct == DecodeString(data) IN
         IF Len(ct) < BlockSize THEN [out |-> <<>>, err |-> ErrTooShort]
         ELSE [out |-> CFBDecrypter(getOrCreateEncryptionKey(secret), ct[BlockSize],
                                    SubSeq(ct, BlockSize + 1, Len(ct))),
               err |-> NoError]

InitCodec ==
    /\ rd = NoRead
    /\ view = NoView
    /\ http = NoHttp
    /\ pics = NoPics
    /\ sup = NoSup
    /\ service = "down"
    /\ call = NoCall
    /\ ready = FALSE
    /\ limits = [jobs |-> NumJobs, steps |-> QueueSteps, batch |-> QueueBatch]
    /\ config = [MaxQueueSize |-> MaxQueueSize, MaxConcurrent |-> 1]
    /\ InitManager
    /\ \E enabled \in BOOLEAN, secret \in Secrets, p \in Payloads :
          codec = [enabled |-> enabled, secret |-> secret, p |-> p,
                   ivs |-> <<>>, cts |-> <<>>, dec |-> <<>>]

noncodec == <<rd, view, pics, http, limits, config, ready, service, sup, call, requests,
              queue, statuses, cancelChans, closed, processingChan, wvars, last, hist>>

\* one call of encryptIfNeeded on the payload; io.ReadFull(rand.Reader, iv)
\* yields any block
Encrypt ==
    /\ "p" \in DOMAIN codec
    /\ Len(codec.cts) < MaxEncrypts
    /\ \E iv \in [1..BlockSize -> Byte] :
          codec' = [codec EXCEPT
                      !.ivs = Append(@, IF codec.enabled THEN iv ELSE <<>>),
                      !.cts = Append(@, encryptIfNeeded(codec.enabled, codec.secret,
                                                        codec.p, iv))]
    /\ UNCHANGED noncodec

\* one call of decryptIfNeeded on the next ciphertext not yet decrypted
Decrypt ==
    /\ "p" \in DOMAIN codec
    /\ Len(codec.dec) < Len(codec.cts)
    /\ codec' = [codec EXCEPT
                   !.dec = Append(@, decryptIfNeeded(codec.enabled, codec.secret,
                                                     codec.cts[Len(codec.dec) + 1]))]
    /\ UNCHANGED noncodec

NextCodec == Encrypt \/ Decrypt

SpecCodec == InitCodec /\ [][NextCodec]_vars

RoundTrip ==
    \A i \in DOMAIN codec.dec : codec.dec[i] = [out |-> codec.p, err |-> NoError]

DisabledIdentity ==
    ~codec.enabled => \A i \in DOMAIN codec.cts : codec.cts[i] = codec.p

\* C26, as claimed: decryption undoes encryption for every payload, two
\* encryptions of the same payload never give the same ciphertext, and with
\* encryption disabled both functions return their input.
EncryptionRoundTrip ==
    /\ RoundTrip
    /\ DisabledIdentity
    /\ codec.enabled =>
          \A i, j \in DOMAIN codec.cts : i # j => codec.cts[i] # codec.cts[j]

\* C26, amended: decryption undoes encryption for every payload, two
\* encryptions of the same payload give the same ciphertext exactly when the
\* same IV was drawn for both, and with encryption disabled both functions
\* return their input.
EncryptionRoundTripPerIV ==
    /\ RoundTrip
    /\ DisabledIdentity
    /\ codec.enabled =>
          \A i, j \in DOMAIN codec.cts :
             (codec.cts[i] = codec.cts[j]) <=> (codec.ivs[i] = codec.ivs[j])

\* a payload longer than one block went twice through the enabled round
\* trip, under different IVs
TwoEncryptionsDecrypted ==
    /\ codec.enabled
    /\ Len(codec.p) = MaxPayload
    /\ Len(codec.dec) = MaxEncrypts
    /\ codec.ivs[1] # codec.ivs[2]

\* ---------------------------------------------------------------------------
\* The images of the placeholder path: two Generate calls of one engine with
\* the external process unavailable.

MaxPrompt == 2
MaxCalls == 2
HashBits == 24
ChannelMax == 255

\* runes of the prompts
Runes == {97, 946}

Prompts == UNION {[1..n -> Runes] : n \in 0..MaxPrompt}

\* for _, r := range prompt { hash = hash*31 + int(r) }: the low HashBits
\* bits of the wrapping sum, which are all the colours use
RECURSIVE PromptHash(_, _)
PromptHash(hash, prompt) ==
    IF prompt = <<>> THEN hash
    ELSE PromptHash((hash * 31 + Head(prompt)) % (2^HashBits), Tail(prompt))

\* uint8((hash >> shift) & 0xFF)
Channel(hash, shift) == (hash \div (2^shift)) % (ChannelMax + 1)

\* uint8(float64(c1)*(1-t) + float64(c2)*t) with t = y / height
Blend(c1, c2, y, height) == (c1 * (height - y) + c2 * y) \div height

\* createMockImage: a vertical gradient from the colour of the hash to its
\* complement
createMockImage(width, height, prompt) ==
    LET hash == PromptHash(0, prompt)
        c(shift, y) == Blend(Channel(hash, shift), ChannelMax - Channel(hash, shift),
                             y, height)
    IN  [y \in 1..height |-> [x \in 1..width |->
            <<c(16, y - 1), c(8, y - 1), c(0, y - 1), ChannelMax>>]]

\* the first result of mockGenerate for a request: ONNXEngine draws the
\* image and saves it under a new uuid; PythonEngine names a file under a
\* new uuid and writes nothing
PlaceholderImage(engine, id, uuid, prompt, width, height) ==
    [id |-> id, prompt |-> prompt, width |-> width, height |-> height,
     file |-> IF engine = "python" THEN <<"mock", uuid>> ELSE <<"", uuid>>,
     written |-> engine = "onnx",
     pixels |-> IF engine = "onnx" THEN createMockImage(width, height, prompt)
                ELSE <<>>]

InitPics ==
    /\ rd = NoRead
    /\ view = NoView
    /\ http = NoHttp
    /\ codec = NoCodec
    /\ sup = NoSup
    /\ service = "down"
    /\ \E engine \in {"python", "onnx"} : call = [engine |-> engine]
    /\ ready = FALSE
    /\ limits = [jobs |-> NumJobs, steps |-> QueueSteps, batch |-> QueueBatch]
    /\ config = [MaxQueueSize |-> MaxQueueSize, MaxConcurrent |-> 1]
    /\ InitManager
    /\ pics = NoPics

\* Generate of a new job with the process unavailable, to its first image
GeneratePlaceholder ==
    /\ Len(pics) < MaxCalls
    /\ \E prompt \in Prompts, width \in 1..MaxDim, height \in 1..MaxDim :
          pics' = Append(pics, PlaceholderImage(call.engine, Len(pics) + 1, Len(pics) + 1,
                                          prompt, width, height))
    /\ UNCHANGED <<rd, view, codec, http, limits, config, ready, service, sup, call, requests,
                   queue, statuses, cancelChans, closed, processingChan, wvars, last,
                   hist>>

NextPics == GeneratePlaceholder

SpecPics == InitPics /\ [][NextPics]_vars

SameInputs(a, b) ==
    a.id # b.id /\ a.prompt = b.prompt /\ a.width = b.width /\ a.height = b.height

\* C27: two Generate calls with the same prompt, width and height and
\* different job ids both produce a placeholder image, and the two images
\* have the same pixels.
FallbackDeterminism ==
    \A i, j \in DOMAIN pics :
        SameInputs(pics[i], pics[j]) =>
            /\ pics[i].written /\ pics[j].written
            /\ pics[i].pixels = pics[j].pixels

\* ---------------------------------------------------------------------------
\* POST /api/v1/generate. A body gives each field or leaves it out; a prompt
\* is its length, cfg_scale is in tenths.

Absent == -1

\* the bodies posted: any prompt, and at most one other field given
Bodies ==
    {b \in [Prompt : {Absent, 0, 5, 1001}, Width : {Absent, 63, 2048},
            Height : {Absent, 64, 2049}, Steps : {Absent, 0, 151},
            CFGScale : {Absent, 9, 301}, BatchSize : {Absent, 2, 11}] :
        Cardinality({f \in DOMAIN b : f # "Prompt" /\ b[f] # Absent}) <= 1}

\* models.NewGenerationRequest: the defaults
NewGenerationRequest ==
    [Prompt |-> 0, Width |-> 512, Height |-> 512, Steps |-> 20, CFGScale |-> 75,
     BatchSize |-> 1]

\* c.BindJSON(&req): the fields of the body override the defaults
BindJSON(body) ==
    [f \in DOMAIN NewGenerationRequest |->
        IF body[f] = Absent THEN NewGenerationRequest[f] ELSE body[f]]

\* the binding tags of GenerationRequest, checked by BindJSON
BindingError(r) ==
    IF r.Prompt = 0 THEN "required"
    ELSE IF r.Prompt < 1 \/ r.Prompt > 1000 THEN "prompt"
    ELSE IF r.Width < 64 \/ r.Width > 2048 THEN "width"
    ELSE IF r.Height < 64 \/ r.Height > 2048 THEN "height"
    ELSE IF r.Steps < 1 \/ r.Steps > 150 THEN "steps"
    ELSE IF r.CFGScale < 10 \/ r.CFGScale > 300 THEN "cfg_scale"
    ELSE IF r.BatchSize < 1 \/ r.BatchSize > 10 THEN "batch_size"
    ELSE NoError

ErrEmptyPrompt == "prompt cannot be empty"
ErrInvalidDimensions == "invalid image dimensions"
ErrInvalidSteps == "invalid number of steps"
ErrInvalidCFGScale == "invalid CFG scale"
ErrInvalidBatchSize == "invalid batch size"

\* GenerationRequest.Validate
Validate(r) ==
    IF r.Prompt = 0 THEN ErrEmptyPrompt
    ELSE IF r.Width < 64 \/ r.Width > 2048 THEN ErrInvalidDimensions
    ELSE IF r.Height < 64 \/ r.Height > 2048 THEN ErrInvalidDimensions
    ELSE IF r.Steps < 1 \/ r.Steps > 150 THEN ErrInvalidSteps
    ELSE IF r.CFGScale < 10 \/ r.CFGScale > 300 THEN ErrInvalidCFGScale
    ELSE IF r.BatchSize < 1 \/ r.BatchSize > 10 THEN ErrInvalidBatchSize
    ELSE NoError

StatusBadRequest == 400
StatusAccepted == 202
StatusServiceUnavailable == 503
StatusInternalServerError == 500

\* the response to a failed Enqueue (mutant: every failure is a server error)
EnqueueFailedMut(err) == [code |-> StatusInternalServerError]
EnqueueFailed(err) ==
    IF err = ErrQueueFull THEN [code |-> StatusServiceUnavailable]
    ELSE [code |-> StatusInternalServerError]

\* the response of the handler after h.queue.Enqueue(req) returned
Respond(ret) ==
    IF ret.err # NoError THEN EnqueueFailed(ret.err)
    ELSE [code |-> StatusAccepted, status |-> "queued", position |-> ret.pos]

\* GenerationHandler.Generate
Generate(body) ==
    LET r == BindJSON(body) IN
    IF BindingError(r) # NoError \/ Validate(r) # NoError
    THEN /\ http' = [code |-> StatusBadRequest, body |-> body]
         /\ last' = Ret("Generate", 0, 0,
                        IF BindingError(r) # NoError THEN BindingError(r) ELSE Validate(r))
         /\ UNCHANGED <<rd, view, codec, pics, limits, config, ready, service, sup, call,
                        requests, queue, statuses, cancelChans, closed, processingChan,
                        wvars, hist>>
    ELSE /\ \E id \in JobIds : Enqueue(id, r.Steps, r.BatchSize)
         /\ http' = Respond(last') @@ [body |-> body]

\* requests are posted and cancelled; no worker runs
NextHandler ==
    \/ \E body \in Bodies : Generate(body)
    \/ \E id \in JobIds : Cancel(id)

SpecHandler == Init /\ [][NextHandler]_vars

\* a request the interface accepts: a prompt of 1 to 1000 characters and
\* every other field left out or inside its range
InRange(v, lo, hi) == v = Absent \/ (lo <= v /\ v <= hi)
ValidBody(b) ==
    /\ b.Prompt # Absent /\ InRange(b.Prompt, 1, 1000)
    /\ InRange(b.Width, 64, 2048) /\ InRange(b.Height, 64, 2048)
    /\ InRange(b.Steps, 1, 150) /\ InRange(b.CFGScale, 10, 300)
    /\ InRange(b.BatchSize, 1, 10)

Answered == last'.op \in {"Generate", "Enqueue"}

ManagerUnchanged ==
    UNCHANGED <<requests, queue, statuses, cancelChans, closed, processingChan>>

Generating == {w \in Workers : pc[w] \in InGenerate}

\* the jobs whose status is processing
Processing == {id \in DOMAIN statuses : statuses[id].Status = StatusProcessing}

\* the workers inside processRequest, each with the one job it received
Busy == {w \in Workers : req[w] # 0}

\* C29: at most max_concurrent Generate calls are in progress and at most
\* max_concurrent jobs have status processing; every processing job is the
\* one job of a worker that is inside processRequest, and no two workers
\* hold the same job.
CapacityRespected ==
    /\ Cardinality(Generating) <= config.MaxConcurrent
    /\ Cardinality(Processing) <= config.MaxConcurrent
    /\ Cardinality(Busy) <= config.MaxConcurrent
    /\ \A id \in Processing : \E w \in Busy : req[w] = id
    /\ \A v, w \in Busy : req[v] = req[w] => v = w

\* with room for one job at a time, one job is being generated and another
\* waits in the dispatch buffer
OneRunsOneWaits ==
    /\ config.MaxConcurrent = 1
    /\ Cardinality(Generating) = 1
    /\ Cardinality(Processing) = 1
    /\ processingChan # <<>>

\* ---------------------------------------------------------------------------
\* Progress of the operations.

\* the dispatch buffer is full and no worker is receiving from it
BufferStuck ==
    /\ Len(processingChan) = config.MaxQueueSize
    /\ \A w \in Workers : pc[w] # "idle"

\* C30: in every reachable state each of Enqueue, Cancel, GetStatus and
\* GetQueue can complete, and so can the next step of every worker that is
\* inside processRequest; in particular Enqueue completes when the dispatch
\* buffer is full and no worker is receiving.
OperationsComplete ==
    /\ Cardinality(DOMAIN requests) < limits.jobs =>
          ENABLED (\E id \in JobIds : Enqueue(id, 1, 1) /\ UNCHANGED http)
    /\ \A id \in JobIds : ENABLED Cancel(id) /\ ENABLED GetStatus(id)
    /\ ENABLED GetQueue
    /\ \A w \in Busy : ENABLED WorkerStep(w)

\* a request was accepted although the dispatch buffer was full and no worker
\* had been started: Enqueue returned and the buffer is as it was
EnqueuedPastFullBuffer ==
    /\ BufferStuck
    /\ \A w \in Workers : pc[w] = "off"
    /\ last.op = "Enqueue" /\ last.err = NoError
    /\ \A i \in DOMAIN processingChan : processingChan[i] # last.id

Terminal == {StatusCompleted, StatusFailed, StatusCancelled}

\* C31: a cancel signal exists for a job from Enqueue on, and once the job
\* is in a terminal status no cancel signal for it remains in the table.
CancelSignalLifecycle ==
    \A id \in DOMAIN statuses :
        /\ statuses[id].Status = StatusQueued => id \in cancelChans
        /\ statuses[id].Status \in Terminal => id \notin cancelChans

\* C32: a status record has results only if its status is completed, and
\* an error message only if its status is failed.
ResultsOnlyCompleted ==
    \A id \in DOMAIN statuses :
        /\ statuses[id].Results # <<>> => statuses[id].Status = StatusCompleted
        /\ statuses[id].Error # NoError => statuses[id].Status = StatusFailed

\* C33: when the external process reported the job failed with message m,
\* the worker's write ends the job with status failed and the error field of
\* its record is m exactly.
RemoteMessageVerbatim ==
    [][\A w \in Workers :
          pc[w] = "failed" /\ gen[w].answer \in RemoteMessages /\ pc'[w] # "failed"
          => /\ statuses'[req[w]].Status = StatusFailed
             /\ statuses'[req[w]].Error = gen[w].answer]_vars

\* ---------------------------------------------------------------------------
\* One exchange of the bridge with the external process: the request is
\* posted, the answers arrive with or without the X-Encrypted header, and the
\* results are processed. log lists the data on which a decryption ran, each
\* with the header of the response that carried it.

MaxPolls == 3

\* ENABLE_INFERENCE_ENCRYPTION == "true" && resp.Header.Get("X-Encrypted") == "true"
ResponseDecrypted(enabled, flag) == enabled /\ flag

\* decryptIfNeeded decrypts whenever encryption is enabled
DecryptRuns(enabled) == enabled

Logged(what, flag, ran) == IF ran THEN <<[data |-> what, flag |-> flag]>> ELSE <<>>

InitWire ==
    /\ rd = NoRead
    /\ view = NoView
    /\ http = NoHttp
    /\ pics = NoPics
    /\ sup = NoSup
    /\ service = "up"
    /\ call = NoCall
    /\ ready = TRUE
    /\ limits = [jobs |-> NumJobs, steps |-> QueueSteps, batch |-> MaxBatch]
    /\ config = [MaxQueueSize |-> MaxQueueSize, MaxConcurrent |-> 1]
    /\ InitManager
    /\ \E enabled \in BOOLEAN :
          codec = [enabled |-> enabled, stage |-> "new", sent |-> <<>>, polls |-> 0,
                   flag |-> FALSE, left |-> 0, log |-> <<>>]

\* Generate: the request body is marshalled, encrypted if needed, and posted
PostRequest ==
    /\ "stage" \in DOMAIN codec /\ codec.stage = "new"
    /\ codec' = [codec EXCEPT !.stage = "posted",
                              !.sent = <<[encrypted |-> codec.enabled,
                                          flag |-> codec.enabled]>>]
    /\ UNCHANGED noncodec

\* Generate: the answer to the POST is parsed
SubmitResponse ==
    /\ "stage" \in DOMAIN codec /\ codec.stage = "posted"
    /\ \E flag \in BOOLEAN :
          codec' = [codec EXCEPT
                      !.stage = "polling",
                      !.log = @ \o Logged("submit", flag,
                                          ResponseDecrypted(codec.enabled, flag))]
    /\ UNCHANGED noncodec

\* getJobStatus: one answer of the status endpoint is parsed; a completed
\* job carries its results
StatusResponse ==
    /\ "stage" \in DOMAIN codec /\ codec.stage = "polling"
    /\ codec.polls < MaxPolls
    /\ \E flag \in BOOLEAN, done \in BOOLEAN, n \in 0..limits.batch :
          /\ ~done => n = 0
          /\ codec' = [codec EXCEPT
                         !.polls = @ + 1,
                         !.stage = IF done THEN "results" ELSE @,
                         !.flag = flag,
                         !.left = n,
                         !.log = @ \o Logged("status", flag,
                                             ResponseDecrypted(codec.enabled, flag))]
    /\ UNCHANGED noncodec

\* processResults: the image data of the next result goes through
\* decryptIfNeeded
ProcessResult ==
    /\ "stage" \in DOMAIN codec /\ codec.stage = "results"
    /\ codec.left > 0
    /\ codec' = [codec EXCEPT
                   !.left = @ - 1,
                   !.log = @ \o Logged("image", codec.flag, DecryptRuns(codec.enabled))]
    /\ UNCHANGED noncodec

NextWire == PostRequest \/ SubmitResponse \/ StatusResponse \/ ProcessResult

SpecWire == InitWire /\ [][NextWire]_vars

\* C34: data received from the external process is decrypted only when
\* encryption is enabled and the response that carried it had the encryption
\* flag set; with encryption enabled the posted request is encrypted and
\* carries the flag.
DecryptOnlyWhenAgreed ==
    /\ \A i \in DOMAIN codec.log : codec.enabled /\ codec.log[i].flag
    /\ \A i \in DOMAIN codec.sent :
          codec.enabled => codec.sent[i].encrypted /\ codec.sent[i].flag

\* Start launched a process that became healthy in time
LaunchedHealthy ==
    /\ last'.op = "Start"
    /\ Len(sup'.own) = Len(sup.own) + 1
    /\ sup'.own[Len(sup'.own)] = "healthy"

\* C35: when the launched process became healthy and the warm load of the
\* default model failed, Start returns OK, the process is left running under
\* the manager's handle and IsRunning() is true; afterwards the flag stays
\* set while nobody calls Stop, so IsRunning() follows the health endpoint.
WarmLoadNonFatal ==
    [][/\ LaunchedHealthy /\ ~sup'.model =>
             /\ last'.err = NoError
             /\ sup'.cmd = Len(sup'.own)
             /\ IsRunning(sup')
       /\ sup.isRunning /\ last'.op = "internal" => (IsRunning(sup') <=> isHealthy(sup'))]_vars

\* Start returned OK for a process it launched whose warm load failed
StartedWithoutModel ==
    /\ last.op = "Start" /\ last.err = NoError
    /\ sup.cmd = Len(sup.own) /\ sup.cmd >= 1
    /\ sup.own[sup.cmd] = "healthy"
    /\ ~sup.model
    /\ IsRunning(sup)

\* the processes this manager launched that are alive
Alive(s) == {p \in DOMAIN s.own : s.own[p] # "exited"}

\* C36: at most one process launched by the manager is alive, and every
\* live process it launched is the one its handle refers to.
SingletonProcess ==
    /\ Cardinality(Alive(sup)) <= 1
    /\ \A p \in Alive(sup) : sup.cmd = p

NewRef ==
    CHOOSE n \in 1..(NumJobs + MaxQueueSize + 1) :
        /\ \A i \in DOMAIN queue : queue[i].Status # n
        /\ \A id \in DOMAIN statuses : statuses[id].ref # n

\* QueueManager.Enqueue for a request whose ID the handler took from the body
EnqueueRequest(id) ==
    /\ IF QueueFull(queue)
       THEN /\ last' = Ret("Enqueue", id, -1, ErrQueueFull)
            /\ UNCHANGED <<requests, queue, statuses, cancelChans, processingChan>>
       ELSE LET status == [Status |-> StatusQueued, Progress |-> 0,
                           CurrentStep |-> 0, TotalSteps |-> 1,
                           Results |-> <<>>, Error |-> NoError,
                           StartedAt |-> FALSE, CompletedAt |-> FALSE, ref |-> NewRef]
                item == [id |-> id, Position |-> NewPosition(queue), Status |-> NewRef]
            IN  /\ requests' = (id :> [Steps |-> 1, BatchSize |-> 1]) @@ requests
                /\ queue' = Append(queue, item)
                /\ statuses' = (id :> status) @@ statuses
                /\ cancelChans' = cancelChans \cup {id}
                /\ processingChan' = ChanSend(processingChan, id)
                /\ last' = Ret("Enqueue", id, item.Position, NoError)
    /\ UNCHANGED <<obs, limits, config, ready, service, sup, call, closed, wvars, hist>>

\* requests are posted with any id, also one already known, and cancelled
NextDup ==
    \/ \E id \in JobIds : EnqueueRequest(id)
    \/ \E id \in JobIds : Cancel(id)

SpecDup == Init /\ [][NextDup]_vars

\* C38: the job ids in the pending list are pairwise distinct, and the
\* status of each pending entry is the record the status table holds under
\* its id.
PendingMatchesTable ==
    /\ \A i, j \in DOMAIN queue : i # j => queue[i].id # queue[j].id
    /\ \A i \in DOMAIN queue : queue[i].Status = statuses[queue[i].id].ref

\* the step is Cancel(id) returning OK right after Cancel(id) returned OK
SecondCancel ==
    /\ last.op = "Cancel" /\ last.err = NoError
    /\ last'.op = "Cancel" /\ last'.id = last.id

\* C39: a second Cancel(id) returns OK, closes no channel, and leaves the
\* status cancelled and the pending list and the cancel-signal table as the
\* first Cancel left them.
CancelIdempotent ==
    [][SecondCancel =>
          /\ last'.err = NoError
          /\ closed' = closed
          /\ cancelChans' = cancelChans
          /\ queue' = queue
          /\ statuses[last.id].Status = StatusCancelled
          /\ statuses'[last.id].Status = StatusCancelled]_vars

\* C40: every request waiting in the dispatch buffer belongs to a job that
\* is in the pending list with status queued; so the buffer holds no more
\* requests than the pending list has entries and is never full while the
\* pending list has room.
BufferedArePending ==
    /\ \A i \in DOMAIN processingChan :
          /\ processingChan[i] \in Ids(queue)
          /\ statuses[processingChan[i]].Status = StatusQueued
    /\ Len(processingChan) <= Len(queue)
    /\ Len(processingChan) = config.MaxQueueSize => QueueFull(queue)

====
